---- MODULE Spec2Model ----
(***************************************************************************)
(* gitrs build.rs: install_dirs() resolves the GNU installation directory  *)
(* variables from the build environment and emits one cargo:rustc-env line *)
(* for each of them.                                                       *)
(*                                                                         *)
(* Representation.  A Rust String is a TLA+ string, joined with \o as      *)
(* format! and String::from join them.  The one string the program scans   *)
(* character by character, the value of CARGO_CFG_TARGET_POINTER_WIDTH, is *)
(* kept as the sequence of its characters; Text joins it back into the     *)
(* string it is.  Option<T> is a sequence of length at most one: None is   *)
(* <<>>, Some(x) is <<x>>.  Result<String, VarError> of env::var is Ok(s)  *)
(* or VarErr: both VarError cases (NotPresent, NotUnicode) meet the same   *)
(* `.ok()` and are one value here.                                         *)
(***************************************************************************)
EXTENDS Integers, Sequences, FiniteSets, TLC

(* ---------------------------------------------------------------- types *)

None == <<>>
Some(x) == <<x>>
IsSome(o) == o # None
Unwrap(o) == o[1]

VarErr == [err |-> "VarError"]
Ok(s) == [ok |-> s]
IsOk(r) == "ok" \in DOMAIN r
\* Result::ok(): Ok(s) becomes Some(s), every Err becomes None.
ResultOk(r) == IF IsOk(r) THEN Some(r.ok) ELSE None

RECURSIVE Text(_)
Text(s) == IF s = <<>> THEN "" ELSE s[1] \o Text(Tail(s))

(* ------------------------------------------------------------ constants *)

CARGO_CFG_TARGET_POINTER_WIDTH == "CARGO_CFG_TARGET_POINTER_WIDTH"
DEFAULT_PREFIX == "/usr/local"
PREFIX == "PREFIX"
EXEC_PREFIX == "EXEC_PREFIX"
BINDIR == "BINDIR"
DATADIR == "DATADIR"
DATAROOTDIR == "DATAROOTDIR"
DOCDIR == "DOCDIR"
INCLUDEDIR == "INCLUDEDIR"
INFODIR == "INFODIR"
LIBEXECDIR == "LIBEXECDIR"
LIBDIR == "LIBDIR"
LOCALSTATEDIR == "LOCALSTATEDIR"
MANDIR == "MANDIR"
RUNSTATEDIR == "RUNSTATEDIR"
SBINDIR == "SBINDIR"
SHAREDSTATEDIR == "SHAREDSTATEDIR"
SYSCONFDIR == "SYSCONFDIR"

PREFIX_DIRS ==
  << <<DATAROOTDIR, "/share">>, <<INCLUDEDIR, "/include">>,
     <<LOCALSTATEDIR, "/var">>, <<SHAREDSTATEDIR, "/var/lib">>,
     <<SYSCONFDIR, "/etc">> >>

DATA_DIRS ==
  << <<DOCDIR, "/doc">>, <<INFODIR, "/info">>, <<MANDIR, "/man">> >>

\* A copy-and-paste slip: the third entry keeps the first one's name.
EXEC_DIRS_pasted ==
  << <<BINDIR, "/bin">>, <<LIBEXECDIR, "/libexec">>, <<BINDIR, "/sbin">> >>

EXEC_DIRS ==
  << <<BINDIR, "/bin">>, <<LIBEXECDIR, "/libexec">>, <<SBINDIR, "/sbin">> >>

LIB_DIRS == << <<LIBDIR, "/lib">> >>

\* The older GNU default, below localstatedir.
ROOT_DIRS_var_run == << <<RUNSTATEDIR, "/var/run">> >>

ROOT_DIRS == << <<RUNSTATEDIR, "/run">> >>

\* The sixteen directory variables, and every variable the program reads.
DirVars ==
  {PREFIX, EXEC_PREFIX, RUNSTATEDIR, DATAROOTDIR, INCLUDEDIR, LOCALSTATEDIR,
   SHAREDSTATEDIR, SYSCONFDIR, DATADIR, DOCDIR, INFODIR, MANDIR, BINDIR,
   LIBEXECDIR, SBINDIR, LIBDIR}
AllVars == DirVars \cup {CARGO_CFG_TARGET_POINTER_WIDTH}

(* ---------------------------------------------------- str::parse::<i32> *)

I32Max == 2147483647
I32Min == (-I32Max) - 1
Radix == 10

DIGITS == <<"0", "1", "2", "3", "4", "5", "6", "7", "8", "9">>
IsDigit(c) == \E i \in DOMAIN DIGITS : DIGITS[i] = c
ToDigit(c) == (CHOOSE i \in DOMAIN DIGITS : DIGITS[i] = c) - 1

\* i32::checked_mul, checked_add, checked_sub: None on overflow.  The test
\* is made before the arithmetic, so that no value leaves the i32 range.
CheckedMul(a, b) ==
  IF a > I32Max \div b \/ a < -(I32Max \div b) THEN None ELSE Some(a * b)
CheckedAdd(a, b) == IF a > I32Max - b THEN None ELSE Some(a + b)
CheckedSub(a, b) == IF a < I32Min + b THEN None ELSE Some(a - b)

\* The digit loop of from_str_radix: multiply, read the digit, then add
\* (a positive number) or subtract (a negative one).
RECURSIVE ParseDigits(_, _, _)
ParseDigits(digits, positive, acc) ==
  IF digits = <<>> THEN Some(acc)
  ELSE LET mul == CheckedMul(acc, Radix) IN
       IF mul = None THEN None
       ELSE IF ~IsDigit(Head(digits)) THEN None
       ELSE LET x == ToDigit(Head(digits))
                nxt == IF positive THEN CheckedAdd(Unwrap(mul), x)
                                   ELSE CheckedSub(Unwrap(mul), x)
            IN IF nxt = None THEN None
               ELSE ParseDigits(Tail(digits), positive, Unwrap(nxt))

\* A parser for an unsigned type: "-" is no sign, and so no digit.
ParseU32(src) ==
  IF src = <<>> THEN None
  ELSE IF Head(src) = "-" THEN None
  ELSE IF Head(src) = "+" /\ Len(src) = 1 THEN None
  ELSE IF Head(src) = "+" THEN ParseDigits(Tail(src), TRUE, 0)
  ELSE ParseDigits(src, TRUE, 0)

\* x.parse::<i32>(): Some(n) for Ok(n), None for every ParseIntError.
ParseI32(src) ==
  IF src = <<>> THEN None
  ELSE IF Head(src) \in {"+", "-"} /\ Len(src) = 1 THEN None
  ELSE IF Head(src) = "+" THEN ParseDigits(Tail(src), TRUE, 0)
  ELSE IF Head(src) = "-" THEN ParseDigits(Tail(src), FALSE, 0)
  ELSE ParseDigits(src, TRUE, 0)

(* --------------------------------------------------------------- EnvVar *)

EnvVar(k, v) == [key |-> k, value |-> v]

\* EnvVar::or that overwrites a value already there.
EnvVarOrAlways(self, value) == [self EXCEPT !.value = Some(value)]

EnvVarOr(self, value) ==
  IF IsSome(self.value) THEN self ELSE [self EXCEPT !.value = Some(value)]

\* EnvVar::or_from that forgets to take the other's value.
EnvVarOrFromKeep(self, other) == self

EnvVarOrFrom(self, other) ==
  IF IsSome(self.value) THEN self ELSE [self EXCEPT !.value = other.value]

\* format!("{}{}", a, b) and format!("{}{}{}", a, b, c)
Format2(a, b) == a \o b
Format3(a, b, c) == a \o b \o c

\* HashMap::new and HashMap::insert
HashMapNew == <<>>
HashMapInsert(m, k, v) ==
  [x \in (DOMAIN m) \cup {k} |-> IF x = k THEN v ELSE m[x]]

\* cargo_env!(var): one line, cargo:rustc-env=KEY=value, on the standard
\* output; the output is kept as the sequence of the variables printed.
CargoEnv(o, var) == Append(o, var)

(* ---------------------------------------------------------------- state *)

VARIABLES
  env,          \* the build environment: variable name -> Ok(value) or VarErr
  pc,           \* the statement install_dirs is at; "done", "panic" at its end
  dir,          \* let mut dir: HashMap<&str, EnvVar>
  qual,         \* let qual
  prefix,       \* let prefix
  exec_prefix,  \* let exec_prefix
  datarootdir,  \* let datarootdir
  i,            \* the index of the running for loop in its table
  out,          \* the variables printed by cargo_env!, in order
  queries,      \* the names given to env::var, in order
  again,        \* whether this is a second run of the program
  env1,         \* the environment of the first run
  first         \* the first run's end: its pc and its output

vars == <<env, pc, dir, qual, prefix, exec_prefix, datarootdir, i, out,
          queries, again, env1, first>>

locals == <<dir, qual, prefix, exec_prefix, datarootdir, i>>
runs == <<env, again, env1, first>>

(* --------------------------------------------------------------- inputs *)

\* At most this many of the sixteen directory variables are set at once.
MaxOverrides == 2

\* The values a directory variable is set to: the empty string and a path.
\* The path of PREFIX is not the path of the others, so that a value taken
\* from the wrong variable shows.
Overrides(k) == IF k = PREFIX THEN {"", "/opt"} ELSE {"", "/opt/exec"}

\* What env::var answers for CARGO_CFG_TARGET_POINTER_WIDTH.
PointerWidths ==
  {VarErr, Ok(<<>>), Ok(<<"6", "x">>), Ok(<<"-", "1">>), Ok(<<"0">>),
   Ok(<<"3", "2">>), Ok(<<"6", "3">>), Ok(<<"6", "4">>), Ok(<<"1", "2", "8">>),
   Ok(<<"2", "1", "4", "7", "4", "8", "3", "6", "4", "8">>)}

\* The environments with at most n directory variables set.
Envs(n) ==
  UNION { { [k \in AllVars |->
               IF k = CARGO_CFG_TARGET_POINTER_WIDTH THEN w
               ELSE IF k \in S THEN Ok(f[k]) ELSE VarErr]
            : f \in {g \in [S -> UNION {Overrides(k) : k \in S}] :
                       \A k \in S : g[k] \in Overrides(k)},
              w \in PointerWidths }
          : S \in {T \in SUBSET DirVars : Cardinality(T) <= n} }

\* At most this many are set in the first of two runs; the second run's
\* environment may set one more.
MaxOverridesAgain == 1

\* The answers of env::var for one variable.
Answers(k) ==
  IF k = CARGO_CFG_TARGET_POINTER_WIDTH THEN PointerWidths
  ELSE {VarErr} \cup {Ok(s) : s \in Overrides(k)}

\* The environments a second run may see: the first run's, or it with one
\* variable set, unset or changed.
Variants(e) ==
  {e} \cup UNION {{[e EXCEPT ![k] = a] : a \in Answers(k)} : k \in AllVars}

(* -------------------------------------------------------------- program *)

\* EnvVar::get(key)
EnvVarGet(key) == EnvVar(key, ResultOk(env[key]))

\* The comparison of line 236 made strict.
QualAbove(x) ==
  LET n == ParseI32(x) IN
  IF n = None THEN None
  ELSE Some(IF Unwrap(n) > 64 THEN Text(x) ELSE "")

\* parse().unwrap_or(0) in place of parse().unwrap()
QualOrEmpty(x) ==
  LET n == ParseI32(x) IN
  IF n = None THEN Some("")
  ELSE Some(IF Unwrap(n) >= 64 THEN Text(x) ELSE "")

\* parse::<u32>() in place of parse::<i32>()
QualUnsigned(x) ==
  LET n == ParseU32(x) IN
  IF n = None THEN None
  ELSE Some(IF Unwrap(n) >= 64 THEN Text(x) ELSE "")

\* if x.parse::<i32>().unwrap() >= 64 { x } else { String::from("") }:
\* None where unwrap panics.
Qual(x) ==
  LET n == ParseI32(x) IN
  IF n = None THEN None
  ELSE Some(IF Unwrap(n) >= 64 THEN Text(x) ELSE "")

\* The raw default in place of the resolved prefix.
LetPrefixDefault(d) == Some(DEFAULT_PREFIX)

\* dir[PREFIX].value.clone()
LetPrefix(d) == d[PREFIX].value

\* dir[EXEC_PREFIX].value.clone()
LetExecPrefix(d) == d[EXEC_PREFIX].value

\* DATADIR read where DATAROOTDIR is meant.
LetDatarootdirFromDatadir(d) == d[DATADIR].value

\* dir[DATAROOTDIR].value.clone()
LetDatarootdir(d) == d[DATAROOTDIR].value

\* A for loop over a table: the step to the next entry, or out of the loop.
LoopNext(table, after) ==
  IF i = Len(table) THEN pc' = after /\ i' = 1
  ELSE pc' = pc /\ i' = i + 1

Start ==
  /\ pc = "prefix"
  /\ dir = HashMapNew
  /\ qual = ""
  /\ prefix = ""
  /\ exec_prefix = ""
  /\ datarootdir = ""
  /\ i = 1
  /\ out = <<>>
  /\ queries = <<>>
  /\ again = FALSE
  /\ env1 = env
  /\ first = None

Init == env \in Envs(MaxOverrides) /\ Start

InitAgain == env \in Envs(MaxOverridesAgain) /\ Start

\* dir.insert(PREFIX, EnvVar::get(PREFIX).or(DEFAULT_PREFIX));
GetPrefix ==
  /\ pc = "prefix"
  /\ dir' = HashMapInsert(dir, PREFIX, EnvVarOr(EnvVarGet(PREFIX), DEFAULT_PREFIX))
  /\ queries' = Append(queries, PREFIX)
  /\ pc' = "exec_prefix"
  /\ UNCHANGED <<qual, prefix, exec_prefix, datarootdir, i, out, runs>>

\* dir.insert(EXEC_PREFIX, EnvVar::get(EXEC_PREFIX).or_from(&dir[PREFIX]));
GetExecPrefix ==
  /\ pc = "exec_prefix"
  /\ dir' = HashMapInsert(dir, EXEC_PREFIX,
                          EnvVarOrFrom(EnvVarGet(EXEC_PREFIX), dir[PREFIX]))
  /\ queries' = Append(queries, EXEC_PREFIX)
  /\ pc' = "qual"
  /\ UNCHANGED <<qual, prefix, exec_prefix, datarootdir, i, out, runs>>

\* let qual = match EnvVar::get(CARGO_CFG_TARGET_POINTER_WIDTH).value.unwrap()
\*   { x => if x.parse::<i32>().unwrap() >= 64 { x } else { String::from("") } };
GetQual ==
  /\ pc = "qual"
  /\ queries' = Append(queries, CARGO_CFG_TARGET_POINTER_WIDTH)
  /\ LET value == EnvVarGet(CARGO_CFG_TARGET_POINTER_WIDTH).value IN
     IF value = None \/ Qual(Unwrap(value)) = None
     THEN pc' = "panic" /\ qual' = qual
     ELSE pc' = "emit" /\ qual' = Unwrap(Qual(Unwrap(value)))
  /\ UNCHANGED <<dir, prefix, exec_prefix, datarootdir, i, out, runs>>

\* cargo_env!(dir[PREFIX]); cargo_env!(dir[EXEC_PREFIX]);
EmitPrefixes ==
  /\ pc = "emit"
  /\ out' = CargoEnv(CargoEnv(out, dir[PREFIX]), dir[EXEC_PREFIX])
  /\ pc' = "root_dirs"
  /\ UNCHANGED <<locals, queries, runs>>

\* for (k, v) in ROOT_DIRS.iter()
\*   { dir.insert(k, EnvVar::get(k).or(v)); cargo_env!(dir[k]); }
RootDirs ==
  /\ pc = "root_dirs"
  /\ LET k == ROOT_DIRS[i][1]
         v == ROOT_DIRS[i][2]
     IN /\ dir' = HashMapInsert(dir, k, EnvVarOr(EnvVarGet(k), v))
        /\ queries' = Append(queries, k)
        /\ out' = CargoEnv(out, dir'[k])
  /\ LoopNext(ROOT_DIRS, "let_prefix")
  /\ UNCHANGED <<qual, prefix, exec_prefix, datarootdir, runs>>

\* let prefix = dir[PREFIX].value.clone().unwrap();
\* let exec_prefix = dir[EXEC_PREFIX].value.clone().unwrap();
LetPrefixes ==
  /\ pc = "let_prefix"
  /\ IF LetPrefix(dir) = None \/ LetExecPrefix(dir) = None
     THEN pc' = "panic" /\ UNCHANGED <<prefix, exec_prefix>>
     ELSE /\ prefix' = Unwrap(LetPrefix(dir))
          /\ exec_prefix' = Unwrap(LetExecPrefix(dir))
          /\ pc' = "prefix_dirs"
  /\ UNCHANGED <<dir, qual, datarootdir, i, out, queries, runs>>

\* for (k, v) in PREFIX_DIRS.iter() {
\*   dir.insert(k, EnvVar::get(k).or(&format!("{}{}", prefix, v)));
\*   cargo_env!(dir[k]); }
PrefixDirs ==
  /\ pc = "prefix_dirs"
  /\ LET k == PREFIX_DIRS[i][1]
         v == PREFIX_DIRS[i][2]
     IN /\ dir' = HashMapInsert(dir, k, EnvVarOr(EnvVarGet(k), Format2(prefix, v)))
        /\ queries' = Append(queries, k)
        /\ out' = CargoEnv(out, dir'[k])
  /\ LoopNext(PREFIX_DIRS, "exec_dirs")
  /\ UNCHANGED <<qual, prefix, exec_prefix, datarootdir, runs>>

\* for (k, v) in EXEC_DIRS.iter()
\*   { cargo_env!(EnvVar::get(k).or(&format!("{}{}", exec_prefix, v))); }
ExecDirs ==
  /\ pc = "exec_dirs"
  /\ LET k == EXEC_DIRS[i][1]
         v == EXEC_DIRS[i][2]
     IN /\ queries' = Append(queries, k)
        /\ out' = CargoEnv(out, EnvVarOr(EnvVarGet(k), Format2(exec_prefix, v)))
  /\ LoopNext(EXEC_DIRS, "lib_dirs")
  /\ UNCHANGED <<dir, qual, prefix, exec_prefix, datarootdir, runs>>

\* for (k, v) in LIB_DIRS.iter()
\*   { cargo_env!(EnvVar::get(k).or(&format!("{}{}{}", exec_prefix, v, qual))); }
LibDirs ==
  /\ pc = "lib_dirs"
  /\ LET k == LIB_DIRS[i][1]
         v == LIB_DIRS[i][2]
     IN /\ queries' = Append(queries, k)
        /\ out' = CargoEnv(out, EnvVarOr(EnvVarGet(k), Format3(exec_prefix, v, qual)))
  /\ LoopNext(LIB_DIRS, "datadir")
  /\ UNCHANGED <<dir, qual, prefix, exec_prefix, datarootdir, runs>>

\* dir.insert(DATADIR, EnvVar::get(DATADIR).or_from(&dir[DATAROOTDIR]));
\* cargo_env!(dir[DATADIR]);
DataDir ==
  /\ pc = "datadir"
  /\ dir' = HashMapInsert(dir, DATADIR,
                          EnvVarOrFrom(EnvVarGet(DATADIR), dir[DATAROOTDIR]))
  /\ queries' = Append(queries, DATADIR)
  /\ out' = CargoEnv(out, dir'[DATADIR])
  /\ pc' = "let_datarootdir"
  /\ UNCHANGED <<qual, prefix, exec_prefix, datarootdir, i, runs>>

\* let datarootdir = dir[DATAROOTDIR].value.clone().unwrap();
LetDataroot ==
  /\ pc = "let_datarootdir"
  /\ IF LetDatarootdir(dir) = None
     THEN pc' = "panic" /\ UNCHANGED datarootdir
     ELSE datarootdir' = Unwrap(LetDatarootdir(dir)) /\ pc' = "data_dirs"
  /\ UNCHANGED <<dir, qual, prefix, exec_prefix, i, out, queries, runs>>

\* for (k, v) in DATA_DIRS.iter() {
\*   dir.insert(k, EnvVar::get(k).or(&format!("{}{}", datarootdir, v)));
\*   cargo_env!(dir[k]); }
DataDirs ==
  /\ pc = "data_dirs"
  /\ LET k == DATA_DIRS[i][1]
         v == DATA_DIRS[i][2]
     IN /\ dir' = HashMapInsert(dir, k, EnvVarOr(EnvVarGet(k), Format2(datarootdir, v)))
        /\ queries' = Append(queries, k)
        /\ out' = CargoEnv(out, dir'[k])
  /\ LoopNext(DATA_DIRS, "done")
  /\ UNCHANGED <<qual, prefix, exec_prefix, datarootdir, runs>>

\* The output of a run that carries on the output of the run before it.
OutputKept == out

\* Nothing is printed when main starts.
OutputNew == <<>>

\* fn main() { install_dirs(); } run once more: after a run that succeeded,
\* in an environment that is the first run's or differs from it in one
\* variable; after a run that failed, in the same environment.
Rerun ==
  /\ pc \in {"done", "panic"}
  /\ ~again
  /\ again' = TRUE
  /\ env1' = env
  /\ first' = Some([pc |-> pc, out |-> out])
  /\ env' \in (IF pc = "done" THEN Variants(env) ELSE {env})
  /\ pc' = "prefix"
  /\ dir' = HashMapNew
  /\ qual' = ""
  /\ prefix' = ""
  /\ exec_prefix' = ""
  /\ datarootdir' = ""
  /\ i' = 1
  /\ out' = OutputNew
  /\ queries' = <<>>

Next ==
  \/ GetPrefix
  \/ GetExecPrefix
  \/ GetQual
  \/ EmitPrefixes
  \/ RootDirs
  \/ LetPrefixes
  \/ PrefixDirs
  \/ ExecDirs
  \/ LibDirs
  \/ DataDir
  \/ LetDataroot
  \/ DataDirs

Spec == Init /\ [][Next]_vars

NextAgain == Next \/ Rerun

SpecAgain == InitAgain /\ [][NextAgain]_vars

(* --------------------------------------------------------------- claims *)

PointerWidth == env[CARGO_CFG_TARGET_POINTER_WIDTH]

\* The values printed for variable k in output o, and the one value when
\* there is exactly one.
Values(o, k) == {o[j].value : j \in {n \in DOMAIN o : o[n].key = k}}
Value(o, k) == CHOOSE v \in Values(o, k) : TRUE
Printed(o, k) == Cardinality({n \in DOMAIN o : o[n].key = k})
Resolved(k) == Value(out, k)

\* Every one of the sixteen variables printed exactly once, with a value.
Complete(o) ==
  /\ Len(o) = Cardinality(DirVars)
  /\ \A k \in DirVars : Printed(o, k) = 1 /\ IsSome(Value(o, k))

\* A string that denotes an integer: an optional sign, then one digit or more.
Magnitude(s) == IF s # <<>> /\ s[1] \in {"+", "-"} THEN Tail(s) ELSE s
DenotesInteger(s) ==
  /\ Magnitude(s) # <<>>
  /\ \A j \in DOMAIN Magnitude(s) : IsDigit(Magnitude(s)[j])

\* ... and one from -2^31 to 2^31 - 1: compared digit by digit with the
\* numeral of the limit, leading zeros apart.
RECURSIVE StripZeros(_)
StripZeros(s) ==
  IF Len(s) > 1 /\ s[1] = "0" THEN StripZeros(Tail(s)) ELSE s
RECURSIVE NumeralLeq(_, _)
NumeralLeq(a, b) ==
  IF Len(a) # Len(b) THEN Len(a) < Len(b)
  ELSE IF a = <<>> THEN TRUE
  ELSE IF a[1] # b[1] THEN ToDigit(a[1]) < ToDigit(b[1])
  ELSE NumeralLeq(Tail(a), Tail(b))
LimitPositive == <<"2", "1", "4", "7", "4", "8", "3", "6", "4", "7">>
LimitNegative == <<"2", "1", "4", "7", "4", "8", "3", "6", "4", "8">>
DenotesI32(s) ==
  /\ DenotesInteger(s)
  /\ NumeralLeq(StripZeros(Magnitude(s)),
                IF s[1] = "-" THEN LimitNegative ELSE LimitPositive)

\* C1: in a run that succeeds, every directory variable the environment
\* sets is printed with exactly the value the environment gives it, LIBDIR
\* included (no "/lib", no qualifier), whatever else is set; and no line
\* printed on the way there says otherwise.
C1_OverrideVerbatim ==
  /\ \A j \in DOMAIN out :
       IsOk(env[out[j].key]) => out[j].value = Some(env[out[j].key].ok)
  /\ pc = "done" =>
       \A k \in DirVars :
         IsOk(env[k]) => Values(out, k) = {Some(env[k].ok)}

C1_Witness ==
  /\ pc = "done"
  /\ env[LIBDIR] = Ok("/opt/exec")
  /\ env[PREFIX] = Ok("/opt")
  /\ qual = "64"
  /\ Resolved(LIBDIR) = Some("/opt/exec")

\* The default the claim gives each variable, from the resolved value of
\* its parent.
C2_Keys == DirVars \ {RUNSTATEDIR, LIBDIR}
C2_Default(k) ==
  CASE k = PREFIX -> "/usr/local"
    [] k = EXEC_PREFIX -> Unwrap(Resolved(PREFIX))
    [] k = DATAROOTDIR -> Unwrap(Resolved(PREFIX)) \o "/share"
    [] k = INCLUDEDIR -> Unwrap(Resolved(PREFIX)) \o "/include"
    [] k = LOCALSTATEDIR -> Unwrap(Resolved(PREFIX)) \o "/var"
    [] k = SHAREDSTATEDIR -> Unwrap(Resolved(PREFIX)) \o "/var/lib"
    [] k = SYSCONFDIR -> Unwrap(Resolved(PREFIX)) \o "/etc"
    [] k = DATADIR -> Unwrap(Resolved(DATAROOTDIR))
    [] k = DOCDIR -> Unwrap(Resolved(DATAROOTDIR)) \o "/doc"
    [] k = INFODIR -> Unwrap(Resolved(DATAROOTDIR)) \o "/info"
    [] k = MANDIR -> Unwrap(Resolved(DATAROOTDIR)) \o "/man"
    [] k = BINDIR -> Unwrap(Resolved(EXEC_PREFIX)) \o "/bin"
    [] k = LIBEXECDIR -> Unwrap(Resolved(EXEC_PREFIX)) \o "/libexec"
    [] k = SBINDIR -> Unwrap(Resolved(EXEC_PREFIX)) \o "/sbin"

OnlySet(S) == \A k \in DirVars : IsOk(env[k]) <=> k \in S

\* C2: in a run that succeeds, a variable the environment does not set has
\* the default made from the resolved value of its parent: with PREFIX=/opt
\* alone bindir is /opt/bin and datarootdir /opt/share, and with
\* EXEC_PREFIX=/opt/exec besides, bindir is /opt/exec/bin.
C2_DefaultFromResolvedParent ==
  pc = "done" =>
    /\ \A k \in C2_Keys : ~IsOk(env[k]) => Resolved(k) = Some(C2_Default(k))
    /\ (OnlySet({PREFIX}) /\ env[PREFIX] = Ok("/opt")) =>
         /\ Resolved(BINDIR) = Some("/opt/bin")
         /\ Resolved(DATAROOTDIR) = Some("/opt/share")
         /\ Resolved(EXEC_PREFIX) = Some("/opt")
    /\ (/\ OnlySet({PREFIX, EXEC_PREFIX})
        /\ env[PREFIX] = Ok("/opt")
        /\ env[EXEC_PREFIX] = Ok("/opt/exec")) =>
         Resolved(BINDIR) = Some("/opt/exec/bin")

C2_Witness ==
  /\ pc = "done"
  /\ OnlySet({PREFIX, EXEC_PREFIX})
  /\ env[PREFIX] = Ok("/opt")
  /\ env[EXEC_PREFIX] = Ok("/opt/exec")
  /\ Resolved(BINDIR) = Some("/opt/exec/bin")
  /\ Resolved(DOCDIR) = Some("/opt/share/doc")

\* The qualifier of the claim: the pointer width string when its number is
\* 64 or more, the empty string below.
C3_Qualifier ==
  IF Unwrap(ParseI32(PointerWidth.ok)) >= 64 THEN Text(PointerWidth.ok) ELSE ""

\* C3: in a run that succeeds with LIBDIR not set, libdir is the resolved
\* exec_prefix, "/lib" and the qualifier; 63 gives .../lib, 64 .../lib64,
\* 128 .../lib128, and 0, -1 and 32 give .../lib.
C3_LibdirQualifier ==
  (pc = "done" /\ ~IsOk(env[LIBDIR])) =>
    /\ Resolved(LIBDIR) =
         Some(Unwrap(Resolved(EXEC_PREFIX)) \o "/lib" \o C3_Qualifier)
    /\ Text(PointerWidth.ok) \in {"-1", "0", "32", "63"} =>
         Resolved(LIBDIR) = Some(Unwrap(Resolved(EXEC_PREFIX)) \o "/lib")
    /\ Text(PointerWidth.ok) = "64" =>
         Resolved(LIBDIR) = Some(Unwrap(Resolved(EXEC_PREFIX)) \o "/lib64")
    /\ Text(PointerWidth.ok) = "128" =>
         Resolved(LIBDIR) = Some(Unwrap(Resolved(EXEC_PREFIX)) \o "/lib128")
    /\ (OnlySet({}) /\ Text(PointerWidth.ok) = "64") =>
         Resolved(LIBDIR) = Some("/usr/local/lib64")
    /\ (OnlySet({}) /\ Text(PointerWidth.ok) = "32") =>
         Resolved(LIBDIR) = Some("/usr/local/lib")

C3_Witness ==
  /\ pc = "done"
  /\ OnlySet({})
  /\ Text(PointerWidth.ok) = "64"
  /\ Resolved(LIBDIR) = Some("/usr/local/lib64")

\* C4: with the pointer width absent or not an integer the run never gets
\* past reading it and ends in failure, and a run that failed has printed
\* nothing, LIBDIR set or not.
C4_NoPartialResult ==
  /\ pc = "panic" => out = <<>>
  /\ (~IsOk(PointerWidth) \/ ~DenotesInteger(PointerWidth.ok)) =>
       (out = <<>> /\ pc \in {"prefix", "exec_prefix", "qual", "panic"})

C4_Witness ==
  /\ pc = "panic"
  /\ PointerWidth = Ok(<<"6", "x">>)
  /\ IsOk(env[LIBDIR])
  /\ out = <<>>

\* C5 as stated: after a run that succeeds, whatever the environment sets,
\* each of the sixteen variables has exactly one value and none has the
\* empty string.
C5_NeverEmpty ==
  pc = "done" =>
    /\ Complete(out)
    /\ \A k \in DirVars : Resolved(k) # Some("")

\* C5: after a run that succeeds each of the sixteen variables is printed
\* exactly once, with a value; the value is the empty string only where the
\* environment sets the variable itself to the empty string, or where
\* exec_prefix (datadir), not set itself, takes the empty string PREFIX
\* (DATAROOTDIR) is set to.
C5_CompleteEmptyOnlyFromOverride ==
  pc = "done" =>
    /\ Complete(out)
    /\ \A k \in DirVars :
         Resolved(k) = Some("") =>
           \/ env[k] = Ok("")
           \/ k = EXEC_PREFIX /\ ~IsOk(env[k]) /\ env[PREFIX] = Ok("")
           \/ k = DATADIR /\ ~IsOk(env[k]) /\ env[DATAROOTDIR] = Ok("")

C5_Witness ==
  /\ pc = "done"
  /\ Complete(out)
  /\ OnlySet({PREFIX})
  /\ env[PREFIX] = Ok("")
  /\ Resolved(EXEC_PREFIX) = Some("")
  /\ Resolved(BINDIR) = Some("/bin")

\* C6 as stated: a pointer width that denotes an integer, of any size or
\* sign, never makes the run fail.
C6_AnyIntegerSucceeds ==
  (IsOk(PointerWidth) /\ DenotesInteger(PointerWidth.ok)) => pc # "panic"

\* C6: a pointer width that denotes an integer from -2^31 to 2^31 - 1 never
\* makes the run fail, whatever the environment sets: a failed run has a
\* pointer width that is absent or denotes no such integer.
C6_AnyI32Succeeds ==
  (IsOk(PointerWidth) /\ DenotesI32(PointerWidth.ok)) => pc # "panic"

C6_Witness ==
  /\ pc = "done"
  /\ PointerWidth = Ok(<<"-", "1">>)
  /\ Complete(out)

\* The directory variables asked of the environment, in the order asked.
DirQueries == SelectSeq(queries, LAMBDA q : q \in DirVars)
Asked(k) == Cardinality({n \in DOMAIN queries : queries[n] = k})
Position(k) == CHOOSE n \in DOMAIN queries : queries[n] = k

\* The order of spec 4.1, as groups: every variable of a group is asked
\* before every variable of a later group.
C7_SpecGroups ==
  << {PREFIX}, {EXEC_PREFIX}, {RUNSTATEDIR},
     {DATAROOTDIR, INCLUDEDIR, LOCALSTATEDIR, SHAREDSTATEDIR, SYSCONFDIR},
     {DATADIR}, {DOCDIR, INFODIR, MANDIR}, {BINDIR, LIBEXECDIR, SBINDIR},
     {LIBDIR} >>

\* C7 as stated: a run that succeeds has asked for each of the sixteen
\* variables exactly once, in the order of spec 4.1.
C7_SpecOrder ==
  pc = "done" =>
    /\ \A k \in DirVars : Asked(k) = 1
    /\ \A g, h \in DOMAIN C7_SpecGroups :
         g < h => \A a \in C7_SpecGroups[g], b \in C7_SpecGroups[h] :
                    Position(a) < Position(b)

\* The order the program asks in.
C7_CodeOrder ==
  <<PREFIX, EXEC_PREFIX, RUNSTATEDIR, DATAROOTDIR, INCLUDEDIR, LOCALSTATEDIR,
    SHAREDSTATEDIR, SYSCONFDIR, BINDIR, LIBEXECDIR, SBINDIR, LIBDIR, DATADIR,
    DOCDIR, INFODIR, MANDIR>>

\* The parent the claim gives each derived variable.
ParentOf(k) ==
  CASE k = EXEC_PREFIX -> {PREFIX}
    [] k \in {DATAROOTDIR, INCLUDEDIR, LOCALSTATEDIR, SHAREDSTATEDIR,
              SYSCONFDIR} -> {PREFIX}
    [] k \in {DATADIR, DOCDIR, INFODIR, MANDIR} -> {DATAROOTDIR}
    [] k \in {BINDIR, LIBEXECDIR, SBINDIR, LIBDIR} -> {EXEC_PREFIX}
    [] OTHER -> {}

\* C7: a run that succeeds has asked for each of the sixteen variables
\* exactly once, in the order PREFIX, EXEC_PREFIX, RUNSTATEDIR, the five
\* below prefix, BINDIR, LIBEXECDIR, SBINDIR, LIBDIR, DATADIR, then DOCDIR,
\* INFODIR, MANDIR; at every point of a run what was asked is a beginning of
\* that order, and a variable is asked only after its parent.
C7_QueriedOnceInCodeOrder ==
  /\ Len(DirQueries) <= Len(C7_CodeOrder)
  /\ DirQueries = SubSeq(C7_CodeOrder, 1, Len(DirQueries))
  /\ pc = "done" => DirQueries = C7_CodeOrder
  /\ \A n \in DOMAIN queries :
       \A a \in ParentOf(queries[n]) :
         \E m \in 1..(n - 1) : queries[m] = a

C7_Witness ==
  /\ pc = "done"
  /\ DirQueries = C7_CodeOrder
  /\ Position(LIBDIR) < Position(DATADIR)

\* C8: in a run that succeeds with RUNSTATEDIR not set, runstatedir is
\* "/run", whatever PREFIX, EXEC_PREFIX and the rest are set to.
C8_RunstatedirFixed ==
  (pc = "done" /\ ~IsOk(env[RUNSTATEDIR])) => Resolved(RUNSTATEDIR) = Some("/run")

C8_Witness ==
  /\ pc = "done"
  /\ ~IsOk(env[RUNSTATEDIR])
  /\ env[PREFIX] = Ok("/opt")
  /\ env[EXEC_PREFIX] = Ok("/opt/exec")
  /\ Resolved(RUNSTATEDIR) = Some("/run")

Finished == pc \in {"done", "panic"}

RECURSIVE Ancestors(_)
Ancestors(k) == ParentOf(k) \cup UNION {Ancestors(a) : a \in ParentOf(k)}
C10_Inputs(k) ==
  {k} \cup Ancestors(k)
      \cup (IF k = LIBDIR THEN {CARGO_CFG_TARGET_POINTER_WIDTH} ELSE {})

\* C10: two runs that succeed, in environments that agree on a variable, on
\* its ancestors and, for LIBDIR, on the pointer width, give that variable
\* the same value.
C10_DependsOnlyOnAncestors ==
  (again /\ pc = "done" /\ Unwrap(first).pc = "done") =>
    \A k \in DirVars :
      (\A a \in C10_Inputs(k) : env[a] = env1[a]) =>
        Value(out, k) = Value(Unwrap(first).out, k)

C10_Witness ==
  /\ again
  /\ pc = "done"
  /\ Unwrap(first).pc = "done"
  /\ env1[DATADIR] = VarErr
  /\ env[DATADIR] = Ok("/opt/exec")
  /\ env[PREFIX] = Ok("/opt")
  /\ Value(out, DATADIR) # Value(Unwrap(first).out, DATADIR)
  /\ Value(out, DOCDIR) = Some("/opt/share/doc")
  /\ Value(Unwrap(first).out, DOCDIR) = Some("/opt/share/doc")

====
